---------------------------- MODULE Spec2Model ----------------------------
(***************************************************************************)
(* A model of the Astrology API of src/main.py: the sign resolver          *)
(* (detect_sign over ZODIAC_DATES), the horoscope generator and its save   *)
(* (get_horoscope), the listing of readings (list_readings) and the two    *)
(* diagnostic endpoints, over a document store holding the collection      *)
(* "reading".                                                              *)
(*                                                                         *)
(* Program strings on which the code computes (req.sign, req.scope, the    *)
(* content, the date string) are sequences of one-character strings, so    *)
(* that str.lower, str.title, strftime and the f-string are computed       *)
(* character by character.  Fixed messages are plain strings.              *)
(***************************************************************************)
EXTENDS Integers, Sequences, FiniteSets

VARIABLES
    store,      \* the documents of collection "reading", in insertion order
    db,         \* the store handle: "None" (never configured), "up", "down"
    clock,      \* the UTC calendar date, <<year, month, day>>
    req,        \* the request handled last
    resp,       \* the response to it
    storeCall   \* how the store call made for it ended: "none", "ok", "failed", "malformed"

vars == <<store, db, clock, req, resp, storeCall>>

---------------------------------------------------------------------------
(* Bounds of the model.                                                    *)

\* the store holds at most MaxStore readings: a save is not attempted beyond
MaxStore == 2
\* the clock advances at most MaxTicks days past its start
MaxTicks == 1
\* birth years run from 2000 (a leap year) to 2000 + YearSpan
YearSpan == 1

---------------------------------------------------------------------------
(* Characters and the string methods the handlers use.                     *)

LowerLetters == <<"a","b","c","d","e","f","g","h","i","j","k","l","m","n","o","p","q","r","s","t","u","v","w","x","y","z">>
UpperLetters == <<"A","B","C","D","E","F","G","H","I","J","K","L","M","N","O","P","Q","R","S","T","U","V","W","X","Y","Z">>
Digits == <<"0","1","2","3","4","5","6","7","8","9">>

IsLower(c) == \E i \in DOMAIN LowerLetters : LowerLetters[i] = c
IsUpper(c) == \E i \in DOMAIN UpperLetters : UpperLetters[i] = c
IsCased(c) == IsLower(c) \/ IsUpper(c)

ch_lower(c) ==
    IF IsUpper(c)
    THEN LowerLetters[CHOOSE i \in DOMAIN UpperLetters : UpperLetters[i] = c]
    ELSE c

ch_upper(c) ==
    IF IsLower(c)
    THEN UpperLetters[CHOOSE i \in DOMAIN LowerLetters : LowerLetters[i] = c]
    ELSE c

\* str.lower()
str_lower(s) == [i \in 1..Len(s) |-> ch_lower(s[i])]

\* str.title(): a cased character is upper-cased when the character before
\* it is not cased (or there is none), and lower-cased otherwise
str_title(s) ==
    [i \in 1..Len(s) |->
        IF ~IsCased(s[i]) THEN s[i]
        ELSE IF i > 1 /\ IsCased(s[i-1]) THEN ch_lower(s[i])
        ELSE ch_upper(s[i])]

\* str(n) of a natural number, and its zero-padded form of width w
RECURSIVE str_int(_)
str_int(n) == IF n < 10 THEN <<Digits[n+1]>> ELSE str_int(n \div 10) \o <<Digits[(n % 10) + 1]>>

RECURSIVE zero_pad(_, _)
zero_pad(s, w) == IF Len(s) >= w THEN s ELSE zero_pad(<<"0">> \o s, w)

---------------------------------------------------------------------------
(* datetime.date: construction, comparison, strftime, the calendar.        *)

IsLeap(y) == (y % 4 = 0 /\ y % 100 # 0) \/ y % 400 = 0

DaysInMonth(y, m) ==
    IF m = 2 THEN (IF IsLeap(y) THEN 29 ELSE 28)
    ELSE IF m \in {4, 6, 9, 11} THEN 30
    ELSE 31

\* date(y, m, d) raises ValueError unless this holds
ValidDate(y, m, d) == m \in 1..12 /\ d \in 1..DaysInMonth(y, m)

\* a <= b on dates
DateLE(a, b) ==
    \/ a[1] < b[1]
    \/ a[1] = b[1] /\ a[2] < b[2]
    \/ a[1] = b[1] /\ a[2] = b[2] /\ a[3] <= b[3]

\* the day after d
NextDay(d) ==
    IF d[3] < DaysInMonth(d[1], d[2]) THEN <<d[1], d[2], d[3] + 1>>
    ELSE IF d[2] < 12 THEN <<d[1], d[2] + 1, 1>>
    ELSE <<d[1] + 1, 1, 1>>

\* strftime("%Y-%m-%d")
strftime(d) ==
    zero_pad(str_int(d[1]), 4) \o <<"-">> \o zero_pad(str_int(d[2]), 2)
        \o <<"-">> \o zero_pad(str_int(d[3]), 2)

---------------------------------------------------------------------------
(* The zodiac table.                                                       *)

Capricorn == <<"c","a","p","r","i","c","o","r","n">>
Aquarius == <<"a","q","u","a","r","i","u","s">>
Pisces == <<"p","i","s","c","e","s">>
Aries == <<"a","r","i","e","s">>
Taurus == <<"t","a","u","r","u","s">>
Gemini == <<"g","e","m","i","n","i">>
Cancer == <<"c","a","n","c","e","r">>
Leo == <<"l","e","o">>
Virgo == <<"v","i","r","g","o">>
Libra == <<"l","i","b","r","a">>
Scorpio == <<"s","c","o","r","p","i","o">>
Sagittarius == <<"s","a","g","i","t","t","a","r","i","u","s">>

\* ZODIAC_DATES with aries starting a day early, on pisces' last day
ZODIAC_DATES_overlap ==
    << [sign |-> Capricorn,   start |-> <<2000, 12, 22>>, end |-> <<2001, 1, 19>>],
       [sign |-> Aquarius,    start |-> <<2001, 1, 20>>,  end |-> <<2001, 2, 18>>],
       [sign |-> Pisces,      start |-> <<2001, 2, 19>>,  end |-> <<2001, 3, 20>>],
       [sign |-> Aries,       start |-> <<2001, 3, 20>>,  end |-> <<2001, 4, 19>>],
       [sign |-> Taurus,      start |-> <<2001, 4, 20>>,  end |-> <<2001, 5, 20>>],
       [sign |-> Gemini,      start |-> <<2001, 5, 21>>,  end |-> <<2001, 6, 20>>],
       [sign |-> Cancer,      start |-> <<2001, 6, 21>>,  end |-> <<2001, 7, 22>>],
       [sign |-> Leo,         start |-> <<2001, 7, 23>>,  end |-> <<2001, 8, 22>>],
       [sign |-> Virgo,       start |-> <<2001, 8, 23>>,  end |-> <<2001, 9, 22>>],
       [sign |-> Libra,       start |-> <<2001, 9, 23>>,  end |-> <<2001, 10, 22>>],
       [sign |-> Scorpio,     start |-> <<2001, 10, 23>>, end |-> <<2001, 11, 21>>],
       [sign |-> Sagittarius, start |-> <<2001, 11, 22>>, end |-> <<2001, 12, 21>>] >>

ZODIAC_DATES ==
    << [sign |-> Capricorn,   start |-> <<2000, 12, 22>>, end |-> <<2001, 1, 19>>],
       [sign |-> Aquarius,    start |-> <<2001, 1, 20>>,  end |-> <<2001, 2, 18>>],
       [sign |-> Pisces,      start |-> <<2001, 2, 19>>,  end |-> <<2001, 3, 20>>],
       [sign |-> Aries,       start |-> <<2001, 3, 21>>,  end |-> <<2001, 4, 19>>],
       [sign |-> Taurus,      start |-> <<2001, 4, 20>>,  end |-> <<2001, 5, 20>>],
       [sign |-> Gemini,      start |-> <<2001, 5, 21>>,  end |-> <<2001, 6, 20>>],
       [sign |-> Cancer,      start |-> <<2001, 6, 21>>,  end |-> <<2001, 7, 22>>],
       [sign |-> Leo,         start |-> <<2001, 7, 23>>,  end |-> <<2001, 8, 22>>],
       [sign |-> Virgo,       start |-> <<2001, 8, 23>>,  end |-> <<2001, 9, 22>>],
       [sign |-> Libra,       start |-> <<2001, 9, 23>>,  end |-> <<2001, 10, 22>>],
       [sign |-> Scorpio,     start |-> <<2001, 10, 23>>, end |-> <<2001, 11, 21>>],
       [sign |-> Sagittarius, start |-> <<2001, 11, 22>>, end |-> <<2001, 12, 21>>] >>

\* SIGNS = [s for s, _ in ZODIAC_DATES]
SIGNS == [i \in 1..Len(ZODIAC_DATES) |-> ZODIAC_DATES[i].sign]

\* x in xs, for a list xs
InList(x, xs) == \E i \in 1..Len(xs) : xs[i] = x

---------------------------------------------------------------------------
(* The responses.  An exception no handler catches leaves the framework    *)
(* to answer 500.                                                          *)

Ok(body) == [status |-> 200, body |-> body]
HTTPException(status_code, detail) == [status |-> status_code, body |-> [detail |-> detail]]
Unhandled(exc) == [status |-> 500, body |-> [exception |-> exc]]
NoResponse == [status |-> 0, body |-> [none |-> TRUE]]
NoRequest == [op |-> "none"]

---------------------------------------------------------------------------
(* POST /api/detect-sign                                                   *)

\* the year every date is moved to before the comparisons
RefYear == 2001

\* the handler's loop over a table, then the late-December test
detect_sign_over(table, d) ==
    IF ~ValidDate(RefYear, d[2], d[3])
    THEN Unhandled("ValueError")        \* ref = date(2001, d.month, d.day) raises
    ELSE
      LET ref == <<RefYear, d[2], d[3]>>
          hit(i) ==
              LET start == <<RefYear, table[i].start[2], table[i].start[3]>>
                  end   == <<RefYear, table[i].end[2], table[i].end[3]>>
              IN  DateLE(start, ref) /\ DateLE(ref, end)
          hits == {i \in 1..Len(table) : hit(i)}
      IN  IF hits # {}
          THEN Ok([sign |-> table[CHOOSE i \in hits : \A j \in hits : i <= j].sign])
          ELSE IF DateLE(<<RefYear, 12, 22>>, ref) /\ DateLE(ref, <<RefYear, 12, 31>>)
          THEN Ok([sign |-> Capricorn])
          ELSE HTTPException(400, "Invalid date")

detect_sign(d) == detect_sign_over(ZODIAC_DATES, d)

---------------------------------------------------------------------------
(* Requests' inputs.                                                       *)

\* birth years: 2000 (a leap year) and the YearSpan years after it
Years == 2000..(2000 + YearSpan)

\* every birthdate the request model accepts: a calendar date
AllBirthdates ==
    {d \in Years \X (1..12) \X (1..31) : ValidDate(d[1], d[2], d[3])}

---------------------------------------------------------------------------
(* The document store (database.py) and the Reading schema (schemas.py).   *)

\* Python's None, where a string may stand
None == <<"<None>">>

\* Reading(sign=..., date=..., content=...)
Reading(sign, date, content) == [sign |-> sign, date |-> date, content |-> content]

\* create_document(collection, object) -> id: the store assigns the identity
\* and keeps the document; with no handle, or the store unreachable, it raises
create_document(st, handle, doc) ==
    IF handle = "up"
    THEN LET oid == Len(st) + 1
         IN  [raised |-> FALSE,
              id     |-> str_int(oid),
              store  |-> Append(st, [_id |-> oid, sign |-> doc.sign,
                                     date |-> doc.date, content |-> doc.content])]
    ELSE [raised |-> TRUE, id |-> None, store |-> st]

\* the first n elements of a list
Take(xs, n) == SubSeq(xs, 1, IF Len(xs) < n THEN Len(xs) ELSE n)

RECURSIVE Matching(_, _)
Matching(st, filt) ==
    IF st = <<>> THEN <<>>
    ELSE IF filt.any \/ Head(st).sign = filt.sign
         THEN <<Head(st)>> \o Matching(Tail(st), filt)
         ELSE Matching(Tail(st), filt)

\* get_documents(collection, filter, limit) -> list of documents
get_documents(st, handle, filt, limit) ==
    IF handle = "up"
    THEN [raised |-> FALSE, docs |-> Take(Matching(st, filt), limit)]
    ELSE [raised |-> TRUE, docs |-> <<>>]

\* db.list_collection_names()
list_collection_names(st, handle) ==
    IF handle = "up"
    THEN [raised |-> FALSE, names |-> IF st = <<>> THEN <<>> ELSE <<"reading">>]
    ELSE [raised |-> TRUE, names |-> <<>>]

---------------------------------------------------------------------------
(* GET / and GET /test                                                     *)

read_root == Ok([message |-> "Astrology API is running"])

\* the diagnostic snapshot; url and name say whether DATABASE_URL and
\* DATABASE_NAME are set in the environment.  The texts are the handler's
\* without their leading symbol and without the cut error message.
test_database(st, handle, url, name) ==
    LET listed == list_collection_names(st, handle)
        database ==
            IF handle = "None" THEN "Available but not initialized"
            ELSE IF listed.raised THEN "Connected but Error"
            ELSE "Connected & Working"
    IN  Ok([backend |-> "Running",
            database |-> database,
            database_url |-> IF url THEN "Set" ELSE "Not Set",
            database_name |-> IF name THEN "Set" ELSE "Not Set",
            connection_status |-> IF handle = "None" THEN "Not Connected" ELSE "Connected",
            collections |-> IF handle = "None" THEN <<>> ELSE Take(listed.names, 10)])

---------------------------------------------------------------------------
(* POST /api/horoscope                                                     *)

HoroscopeFor == <<" ","H","o","r","o","s","c","o","p","e"," ","f","o","r"," ">>
BodyText ==
    <<"E","n","e","r","g","y"," ","f","a","v","o","r","s"," ","t","h","o","u","g","h","t","f","u","l"," ","p","l","a","n","n","i","n","g","."," ","S","t","a","y"," ","o","p","e","n"," ","t","o"," ","s","m","a","l","l"," ","s","u","r","p","r","i","s","e","s",";"," ">>
    \o <<"a"," ","c","o","n","v","e","r","s","a","t","i","o","n"," ","c","o","u","l","d"," ","p","o","i","n","t"," ","y","o","u"," ","t","o","w","a","r","d"," ","a"," ","u","s","e","f","u","l"," ","o","p","p","o","r","t","u","n","i","t","y",".">>

\* the f-string with the scope interpolated as given, its .title() forgotten
horoscope_content_raw_scope(sign, scope, today) ==
    str_title(sign) \o <<" ">> \o scope \o HoroscopeFor \o today \o <<":", " ">> \o BodyText

\* the f-string of the handler
horoscope_content(sign, scope, today) ==
    str_title(sign) \o <<" ">> \o str_title(scope) \o HoroscopeFor \o today \o <<":", " ">> \o BodyText

\* the handler comparing req.sign as given, its .lower() forgotten
get_horoscope_no_lower(sign_in, scope_in, now, st, handle) ==
    IF ~InList(sign_in, SIGNS)
    THEN [resp |-> HTTPException(400, "Unknown sign"), store |-> st, call |-> "none"]
    ELSE
      LET today   == strftime(now)
          content == horoscope_content(sign_in, scope_in, today)
          saved   == create_document(st, handle, Reading(sign_in, today, content))
      IN  [resp  |-> Ok([date |-> today, sign |-> sign_in, scope |-> scope_in,
                         content |-> content,
                         id |-> IF saved.raised THEN None ELSE saved.id]),
           store |-> saved.store,
           call  |-> IF saved.raised THEN "failed" ELSE "ok"]

\* the handler with the save outside any try: a store error goes to the caller
get_horoscope_no_catch(sign_in, scope_in, now, st, handle) ==
    LET sign == str_lower(sign_in)
    IN  IF ~InList(sign, SIGNS)
        THEN [resp |-> HTTPException(400, "Unknown sign"), store |-> st, call |-> "none"]
        ELSE
          LET today   == strftime(now)
              content == horoscope_content(sign, scope_in, today)
              saved   == create_document(st, handle, Reading(sign, today, content))
          IN  IF saved.raised
              THEN [resp |-> Unhandled("Exception"), store |-> st, call |-> "failed"]
              ELSE [resp  |-> Ok([date |-> today, sign |-> sign, scope |-> scope_in,
                                  content |-> content, id |-> saved.id]),
                    store |-> saved.store,
                    call  |-> "ok"]

\* the handler with the membership test forgotten: any sign is generated for
get_horoscope_no_check(sign_in, scope_in, now, st, handle) ==
    LET sign    == str_lower(sign_in)
        today   == strftime(now)
        content == horoscope_content(sign, scope_in, today)
        saved   == create_document(st, handle, Reading(sign, today, content))
    IN  [resp  |-> Ok([date |-> today, sign |-> sign, scope |-> scope_in,
                       content |-> content,
                       id |-> IF saved.raised THEN None ELSE saved.id]),
         store |-> saved.store,
         call  |-> IF saved.raised THEN "failed" ELSE "ok"]

\* the handler keeping one reading per sign and date: a reading already stored
\* for them is dropped before the new one is saved
get_horoscope_upsert(sign_in, scope_in, now, st, handle) ==
    LET sign == str_lower(sign_in)
    IN  IF ~InList(sign, SIGNS)
        THEN [resp |-> HTTPException(400, "Unknown sign"), store |-> st, call |-> "none"]
        ELSE
          LET today   == strftime(now)
              content == horoscope_content(sign, scope_in, today)
              kept    == SelectSeq(st, LAMBDA r : ~(r.sign = sign /\ r.date = today))
              saved   == create_document(IF handle = "up" THEN kept ELSE st, handle,
                                         Reading(sign, today, content))
          IN  [resp  |-> Ok([date |-> today, sign |-> sign, scope |-> scope_in,
                             content |-> content,
                             id |-> IF saved.raised THEN None ELSE saved.id]),
               store |-> saved.store,
               call  |-> IF saved.raised THEN "failed" ELSE "ok"]

\* the handler: the response, the store after it, and how the save ended
get_horoscope(sign_in, scope_in, now, st, handle) ==
    LET sign == str_lower(sign_in)
    IN  IF ~InList(sign, SIGNS)
        THEN [resp |-> HTTPException(400, "Unknown sign"), store |-> st, call |-> "none"]
        ELSE
          LET today   == strftime(now)
              content == horoscope_content(sign, scope_in, today)
              saved   == create_document(st, handle, Reading(sign, today, content))
              reading_id == IF saved.raised THEN None ELSE saved.id
          IN  [resp  |-> Ok([date |-> today, sign |-> sign, scope |-> scope_in,
                             content |-> content, id |-> reading_id]),
               store |-> saved.store,
               call  |-> IF saved.raised THEN "failed" ELSE "ok"]

---------------------------------------------------------------------------
(* GET /api/readings                                                       *)

\* limit=50
ReadingsLimit == 50

\* d["id"] = str(d.pop("_id"))
convert_id(d) == [id |-> str_int(d._id), sign |-> d.sign, date |-> d.date, content |-> d.content]

\* the handler with no try around the store call and the conversion
list_readings_no_catch(sign, st, handle, wellformed) ==
    LET filt  == IF sign # None /\ sign # <<>>
                 THEN [any |-> FALSE, sign |-> sign]
                 ELSE [any |-> TRUE, sign |-> None]
        found == get_documents(st, handle, filt, ReadingsLimit)
    IN  IF found.raised
        THEN [resp |-> Unhandled("Exception"), call |-> "failed"]
        ELSE IF ~wellformed
        THEN [resp |-> Unhandled("TypeError"), call |-> "malformed"]
        ELSE [resp |-> Ok([items |-> [i \in 1..Len(found.docs) |-> convert_id(found.docs[i])]]),
              call |-> "ok"]

\* the handler; wellformed says whether the store's answer is a list of
\* documents the conversion can walk
list_readings(sign, st, handle, wellformed) ==
    LET filt  == IF sign # None /\ sign # <<>>
                 THEN [any |-> FALSE, sign |-> sign]
                 ELSE [any |-> TRUE, sign |-> None]
        found == get_documents(st, handle, filt, ReadingsLimit)
    IN  IF found.raised
        THEN [resp |-> Ok([items |-> <<>>]), call |-> "failed"]
        ELSE IF ~wellformed
        THEN [resp |-> Ok([items |-> <<>>]), call |-> "malformed"]
        ELSE [resp |-> Ok([items |-> [i \in 1..Len(found.docs) |-> convert_id(found.docs[i])]]),
              call |-> "ok"]

---------------------------------------------------------------------------
(* Requests' inputs.                                                       *)

str_upper(s) == [i \in 1..Len(s) |-> ch_upper(s[i])]
Alternate(s) == [i \in 1..Len(s) |-> IF i % 2 = 0 THEN ch_upper(s[i]) ELSE s[i]]
CaseVariants(s) == {s, str_upper(s), str_title(s), Alternate(s)}

Daily == <<"d","a","i","l","y">>
NextWeek == <<"n","e","x","t"," ","w","e","e","k">>
Dragon == <<"d","r","a","g","o","n">>

\* strings that are no sign: a foreign word, the empty string, a sign with a
\* trailing space, a sign cut short, a sign with a letter more
UnknownSigns == {Dragon, <<>>, Leo \o <<" ">>, <<"l","e">>, Leo \o <<"s">>, <<"L","E","O","N">>}

\* every case variant of every sign, and the strings that are no sign
AllSignInputs == UNION {CaseVariants(SIGNS[i]) : i \in 1..Len(SIGNS)} \cup UnknownSigns

SignSamples == CaseVariants(Leo) \cup {Dragon, <<>>}
ScopeSamples == {Daily, str_upper(Daily), NextWeek}
FilterSamples == {None, <<>>, Leo, str_upper(Leo), Aries}
BirthSamples ==
    {<<2000, 1, 1>>, <<2001, 1, 19>>, <<2001, 1, 20>>, <<2000, 2, 29>>,
     <<2001, 3, 21>>, <<2001, 7, 22>>, <<2001, 12, 21>>, <<2000, 12, 22>>}

---------------------------------------------------------------------------
(* The actions.                                                            *)

ReadRoot ==
    /\ req' = [op |-> "root"]
    /\ resp' = read_root
    /\ storeCall' = "none"
    /\ UNCHANGED <<store, db, clock>>

TestDatabase ==
    \E url \in BOOLEAN, name \in BOOLEAN :
        /\ req' = [op |-> "test", url |-> url, name |-> name]
        /\ resp' = test_database(store, db, url, name)
        /\ storeCall' = "none"
        /\ UNCHANGED <<store, db, clock>>

DetectSign(dates) ==
    \E d \in dates :
        /\ req' = [op |-> "detect-sign", birthdate |-> d]
        /\ resp' = detect_sign(d)
        /\ storeCall' = "none"
        /\ UNCHANGED <<store, db, clock>>

GetHoroscope(signs, scopes) ==
    \E s \in signs, sc \in scopes :
        \E r \in {get_horoscope(s, sc, clock, store, db)} :
            /\ Len(r.store) <= MaxStore
            /\ req' = [op |-> "horoscope", sign |-> s, scope |-> sc, utcnow |-> clock]
            /\ resp' = r.resp
            /\ store' = r.store
            /\ storeCall' = r.call
            /\ UNCHANGED <<db, clock>>

ListReadings(filters) ==
    \E f \in filters, wellformed \in BOOLEAN :
        \E r \in {list_readings(f, store, db, wellformed)} :
            /\ req' = [op |-> "readings", sign |-> f]
            /\ resp' = r.resp
            /\ storeCall' = r.call
            /\ UNCHANGED <<store, db, clock>>

\* a day passes
ClockStart == <<2023, 12, 31>>

RECURSIVE DaysAfter(_, _)
DaysAfter(d, n) == IF n = 0 THEN d ELSE NextDay(DaysAfter(d, n - 1))

Tick ==
    /\ clock # DaysAfter(ClockStart, MaxTicks)
    /\ clock' = NextDay(clock)
    /\ UNCHANGED <<store, db, req, resp, storeCall>>

\* the store becomes unreachable, and reachable again
StoreFails ==
    /\ db = "up"
    /\ db' = "down"
    /\ UNCHANGED <<store, clock, req, resp, storeCall>>

StoreRecovers ==
    /\ db = "down"
    /\ db' = "up"
    /\ UNCHANGED <<store, clock, req, resp, storeCall>>

Init ==
    /\ store = <<>>
    /\ db \in {"None", "up"}
    /\ clock = ClockStart
    /\ req = NoRequest
    /\ resp = NoResponse
    /\ storeCall = "none"

\* the service
DetectSample == DetectSign(BirthSamples)
HoroscopeSample == GetHoroscope(SignSamples, ScopeSamples)
ReadingsSample == ListReadings(FilterSamples)

Next ==
    \/ ReadRoot
    \/ TestDatabase
    \/ DetectSample
    \/ HoroscopeSample
    \/ ReadingsSample
    \/ Tick
    \/ StoreFails
    \/ StoreRecovers

Spec == Init /\ [][Next]_vars

\* the resolver alone: the first request, on any birthdate
ResolveAny == req = NoRequest /\ DetectSign(AllBirthdates)
NextResolve == ResolveAny
SpecResolve == Init /\ [][NextResolve]_vars

\* the sign check alone: the first request, on any sign input
HoroscopeAny == req = NoRequest /\ GetHoroscope(AllSignInputs, {Daily, NextWeek})
NextSigns == HoroscopeAny
SpecSigns == Init /\ [][NextSigns]_vars

---------------------------------------------------------------------------
(* The claims.                                                             *)

TwelveSigns ==
    {Capricorn, Aquarius, Pisces, Aries, Taurus, Gemini, Cancer, Leo, Virgo,
     Libra, Scorpio, Sagittarius}

\* a and b are the same string up to the case of their letters
SameIgnoringCase(a, b) ==
    Len(a) = Len(b) /\ \A i \in 1..Len(a) : ch_upper(a[i]) = ch_upper(b[i])

KnownSign(s) == \E c \in TwelveSigns : SameIgnoringCase(s, c)

MonthDay(d) == <<d[2], d[3]>>

\* C1: every calendar day, Feb 29 included, in any birth year, resolves to
\* exactly one of the twelve signs: the answer to detect-sign is 200 and
\* carries a sign of the table.
C1_EveryDayHasASign ==
    req.op = "detect-sign" =>
        /\ resp.status = 200
        /\ resp.body.sign \in TwelveSigns

\* C2: the first and the last day of each sign's interval resolve to that
\* sign, and so does every day of capricorn's two sub-ranges, Dec 22-31 and
\* Jan 1-19 (so Jan 1 and Dec 22 give capricorn, Mar 21 aries, Jul 22 cancer).
C2_BoundariesInclusive ==
    req.op = "detect-sign" =>
        \A i \in 1..Len(ZODIAC_DATES) :
            LET e  == ZODIAC_DATES[i]
                md == MonthDay(req.birthdate)
                inCapricorn == (md[1] = 12 /\ md[2] >= 22) \/ (md[1] = 1 /\ md[2] <= 19)
            IN  (md = MonthDay(e.start) \/ md = MonthDay(e.end)
                    \/ (e.sign = Capricorn /\ inCapricorn))
                => resp = Ok([sign |-> e.sign])

\* C3: detect-sign never crashes: on every calendar birthdate the answer is
\* 200 with a sign or the guarded 400, never a 500.
C3_NeverCrashes ==
    req.op = "detect-sign" => resp.status \in {200, 400}

\* C4: the horoscope request is answered 400 exactly when its sign, compared
\* ignoring case, is none of the twelve labels; every case variant of a label
\* is accepted and the response carries that label in lower case.
C4_UnknownSignRejected ==
    req.op = "horoscope" =>
        LET labels == {c \in TwelveSigns : SameIgnoringCase(req.sign, c)}
        IN  IF labels = {}
            THEN resp.status = 400
            ELSE resp.status = 200 /\ \A c \in labels : resp.body.sign = c

C4_Witness ==
    /\ req.op = "horoscope"
    /\ req.sign = <<"L","E","O">>
    /\ resp.status = 200
    /\ resp.body.sign = Leo

\* C5: a horoscope request with a known sign is answered 200 whatever the
\* store does: when the save fails the date, sign, scope and content are those
\* of the answer given with the store up and the id is null, and the id is
\* null only when the save failed.
C5_SurvivesStoreFailure ==
    (req.op = "horoscope" /\ KnownSign(req.sign)) =>
        LET up == get_horoscope(req.sign, req.scope, req.utcnow, <<>>, "up").resp
        IN  /\ resp.status = 200
            /\ up.status = 200
            /\ resp.body.date = up.body.date
            /\ resp.body.sign = up.body.sign
            /\ resp.body.scope = up.body.scope
            /\ resp.body.content = up.body.content
            /\ up.body.id # None
            /\ (resp.body.id = None) <=> (storeCall = "failed")

C5_Witness ==
    /\ req.op = "horoscope"
    /\ storeCall = "failed"
    /\ resp.status = 200
    /\ resp.body.id = None
    /\ Len(store) > 0

\* C6: the listing is always answered 200, with or without a sign filter:
\* when the store call or the conversion of its result fails, the answer is
\* exactly an empty list of items.
C6_ReadingsAlways200 ==
    req.op = "readings" =>
        /\ resp.status = 200
        /\ DOMAIN resp.body = {"items"}
        /\ (storeCall \in {"failed", "malformed"} => resp.body.items = <<>>)

C6_Witness ==
    /\ req.op = "readings"
    /\ storeCall = "failed"
    /\ Len(store) > 0
    /\ resp = Ok([items |-> <<>>])

\* C7: every reading in the store has one of the twelve lower-case signs and
\* a content that is not empty.
C7_StoredReadingsValid ==
    \A i \in 1..Len(store) :
        /\ store[i].sign \in TwelveSigns
        /\ Len(store[i].content) > 0

C7_Witness ==
    /\ Len(store) >= 2
    /\ req.op = "horoscope"
    /\ resp.status = 400

\* C8: the store is append-only: a horoscope request with a known sign, made
\* with the store up, appends exactly one reading (the one it answers with),
\* and every other step leaves the store as it was.
C8_AppendOnly ==
    [][IF /\ clock' = clock
          /\ db' = db
          /\ db = "up"
          /\ req'.op = "horoscope"
          /\ KnownSign(req'.sign)
       THEN /\ Len(store') = Len(store) + 1
            /\ SubSeq(store', 1, Len(store)) = store
            /\ resp'.status = 200
            /\ store'[Len(store')].sign = resp'.body.sign
            /\ store'[Len(store')].date = resp'.body.date
            /\ store'[Len(store')].content = resp'.body.content
       ELSE store' = store]_vars

C8_Witness ==
    /\ Len(store) >= 2
    /\ store[1].sign = store[2].sign
    /\ store[1].date = store[2].date
    /\ req.op = "horoscope"
    /\ storeCall = "ok"

\* C9: the content of an accepted horoscope request is a function of its
\* sign, scope and date alone, the same in every store state and after any
\* earlier requests: the title-cased sign, a space, the title-cased scope,
\* " Horoscope for ", the date, ": " and the fixed body, in that order.
C9_ContentDetermined ==
    (req.op = "horoscope" /\ resp.status = 200) =>
        LET c  == resp.body.content
            sg == resp.body.sign
            sc == resp.body.scope
            dt == resp.body.date
            p1 == Len(sg)
            p2 == p1 + 1 + Len(sc)
            p3 == p2 + Len(HoroscopeFor)
            p4 == p3 + Len(dt)
        IN  /\ SubSeq(c, 1, p1) = str_title(sg)
            /\ c[p1 + 1] = " "
            /\ SubSeq(c, p1 + 2, p2) = str_title(sc)
            /\ SubSeq(c, p2 + 1, p3) = HoroscopeFor
            /\ SubSeq(c, p3 + 1, p4) = dt
            /\ SubSeq(c, p4 + 1, p4 + 2) = <<":", " ">>
            /\ SubSeq(c, p4 + 3, Len(c)) = BodyText
            /\ sc = req.scope
            /\ (req.utcnow = <<2024, 1, 1>> =>
                    dt = <<"2","0","2","4","-","0","1","-","0","1">>)
            /\ (sg = Leo /\ sc \in {Daily, str_upper(Daily)} /\ req.utcnow = <<2024, 1, 1>> =>
                    SubSeq(c, 1, p4) =
                        <<"L","e","o"," ","D","a","i","l","y">> \o HoroscopeFor
                            \o <<"2","0","2","4","-","0","1","-","0","1">>)

C9_Witness ==
    /\ req.op = "horoscope"
    /\ resp.status = 200
    /\ req.sign = <<"L","E","O">>
    /\ req.scope = <<"D","A","I","L","Y">>
    /\ req.utcnow = <<2024, 1, 1>>
    /\ Len(store) >= 2
    /\ db = "down"

\* the containment test the handler makes for entry e of the table on the
\* normalized date ref, capricorn's late-December test included
SignTest(e, ref) ==
    \/ /\ DateLE(<<RefYear, e.start[2], e.start[3]>>, ref)
       /\ DateLE(ref, <<RefYear, e.end[2], e.end[3]>>)
    \/ /\ e.sign = Capricorn
       /\ DateLE(<<RefYear, 12, 22>>, ref)
       /\ DateLE(ref, <<RefYear, 12, 31>>)

Reverse(xs) == [i \in 1..Len(xs) |-> xs[Len(xs) + 1 - i]]
Rotate(xs, k) == [i \in 1..Len(xs) |-> xs[((i + k - 1) % Len(xs)) + 1]]

\* C10: the twelve intervals of the table are contiguous over the cyclic
\* calendar (each sign starts the day after the sign before it ends) and
\* disjoint (no day passes the containment test of two signs), so the
\* resolver's answer is the same in whatever order the ranges are tested.
C10_ContiguousDisjoint ==
    /\ \A i \in 1..Len(ZODIAC_DATES) :
          LET before == ZODIAC_DATES[IF i = 1 THEN Len(ZODIAC_DATES) ELSE i - 1]
          IN  MonthDay(NextDay(before.end)) = MonthDay(ZODIAC_DATES[i].start)
    /\ req.op = "detect-sign" =>
          LET d == req.birthdate
          IN  /\ ValidDate(RefYear, d[2], d[3]) =>
                    Cardinality({i \in 1..Len(ZODIAC_DATES) :
                        SignTest(ZODIAC_DATES[i], <<RefYear, d[2], d[3]>>)}) <= 1
              /\ detect_sign_over(Reverse(ZODIAC_DATES), d) = resp
              /\ \A k \in 1..Len(ZODIAC_DATES) :
                    detect_sign_over(Rotate(ZODIAC_DATES, k), d) = resp

C10_Witness ==
    /\ req.op = "detect-sign"
    /\ req.birthdate = <<2000, 3, 21>>
    /\ resp = Ok([sign |-> Aries])

=============================================================================
